---- MODULE Spec2Model ----
(***************************************************************************)
(* Attention-weighted statistics poolers of wespeaker/models/              *)
(* pooling_layers.py (ASTP, MHASTP, MQMHASTP, XI) as a state machine: a    *)
(* pooler object is constructed, switched between training and evaluation  *)
(* mode, asked for its output dimension and called on input tensors.       *)
(*                                                                         *)
(* Numbers.  A number is a record [k, n, d]:                               *)
(*   k = "rat"    the exact rational n/d (d > 0, lowest terms)             *)
(*   k = "nan"    IEEE NaN (0/0, and everything computed from it)          *)
(*   k = "pow10"  10^n, the value a clamp(min=1e-7 / 1e-12) substitutes    *)
(*   k = "sqrt"   sqrt(n/d);  k = "sqrtpow10"  sqrt(10^n)                  *)
(* Weighted moments are exact rationals.  Inside the scorer networks the   *)
(* transcendental functions (tanh, exp, log softplus, 1/sqrt) are taken on *)
(* the integer grid and rounded to the nearest grid point; floating-point  *)
(* rounding and overflow of the moments are not modelled.                  *)
(*                                                                         *)
(* Tensors.  A tensor is [shape, data] with data in row-major order, as    *)
(* torch stores a contiguous tensor; NoTensor has shape << >>.             *)
(***************************************************************************)
EXTENDS Integers, Sequences, FiniteSets, TLC

VARIABLES pooler, args, raised, call

vars == <<pooler, args, raised, call>>

-----------------------------------------------------------------------------
(* Bounds of the model *)

MaxT == 2
MaxHeads == 2
MaxLayers == 2
MaxQuery == 2
MaxTracked == 2

InDims == {1, 2}
BottleneckDims == {2}
HiddenSizes == {2}
DsValues == {1, 2}
Seeds == {0, 1}
Utterances == {0, 1, 2, 3}

-----------------------------------------------------------------------------
(* Numbers *)

Abs(i) == IF i < 0 THEN -i ELSE i

RECURSIVE GCD(_, _)
GCD(a, b) == IF b = 0 THEN a ELSE GCD(b, a % b)

Sign(i) == IF i < 0 THEN -1 ELSE IF i = 0 THEN 0 ELSE 1

\* n/d in lowest terms, g being the greatest common divisor of |n| and |d|
Reduced(n, d, g) ==
  [k |-> "rat", n |-> (Sign(d) * n) \div g, d |-> (Sign(d) * d) \div g]
Rat(n, d) == Reduced(n, d, GCD(Abs(n), Abs(d)))

Int2Num(i) == [k |-> "rat", n |-> i, d |-> 1]
NaN == [k |-> "nan", n |-> 0, d |-> 0]
Pow10(e) == [k |-> "pow10", n |-> e, d |-> 1]
Zero == Int2Num(0)
One == Int2Num(1)

IsNaN(v) == v.k = "nan"

\* a + b over the least common denominator, g = gcd(a.d, b.d)
AddOver(a, b, g) == Rat(a.n * (b.d \div g) + b.n * (a.d \div g), (a.d \div g) * b.d)
Add(a, b) == IF IsNaN(a) \/ IsNaN(b) THEN NaN ELSE AddOver(a, b, GCD(a.d, b.d))
Neg(a) == IF IsNaN(a) THEN NaN ELSE Rat(-a.n, a.d)
Sub(a, b) == Add(a, Neg(b))
\* a * b cancelled crosswise first, g1 = gcd(|a.n|, b.d), g2 = gcd(|b.n|, a.d)
MulOver(a, b, g1, g2) ==
  Rat((a.n \div g1) * (b.n \div g2), (a.d \div g2) * (b.d \div g1))
Mul(a, b) == IF IsNaN(a) \/ IsNaN(b) THEN NaN
             ELSE MulOver(a, b, GCD(Abs(a.n), b.d), GCD(Abs(b.n), a.d))
\* a / b with IEEE's 0/0 = NaN; no other division by zero occurs
Div(a, b) == IF IsNaN(a) \/ IsNaN(b) \/ b.n = 0 THEN NaN
             ELSE Mul(a, Rat(b.d, b.n))
Less(a, b) == ~IsNaN(a) /\ ~IsNaN(b) /\ Sub(a, b).n < 0
Leq(a, b) == ~IsNaN(a) /\ ~IsNaN(b) /\ Sub(a, b).n <= 0

\* a sequence given as a function, with its elements computed
Tup(f) == f \o << >>

RECURSIVE SumSeq(_)
SumSeq(s) == IF s = << >> THEN Zero ELSE Add(Head(s), SumSeq(Tail(s)))

\* n/d < 10^(-e) for n/d a rational and e >= 0, without forming 10^e
RECURSIVE LessPow10(_, _, _)
LessPow10(n, d, e) ==
  IF n <= 0 THEN TRUE
  ELSE IF n >= d THEN FALSE
  ELSE IF e = 0 THEN TRUE
  ELSE LessPow10(10 * n, d, e - 1)

\* torch.clamp(v, min=10^(-e)): NaN passes through
ClampMin(v, e) ==
  IF IsNaN(v) THEN NaN
  ELSE IF LessPow10(v.n, v.d, e) THEN Pow10(-e) ELSE v

\* torch.sqrt of a clamped (positive) value
Sqrt(v) ==
  IF IsNaN(v) THEN NaN
  ELSE IF v.k = "pow10" THEN [k |-> "sqrtpow10", n |-> v.n, d |-> 1]
  ELSE [k |-> "sqrt", n |-> v.n, d |-> v.d]

\* nearest integer to a rational, halves away from zero
Round(v) ==
  IF IsNaN(v) THEN NaN
  ELSE LET a == (2 * Abs(v.n) + v.d) \div (2 * v.d)
       IN  Int2Num(IF v.n < 0 THEN -a ELSE a)

\* nearest integer to sqrt(v + eps), v >= 0 rational: the k with
\* (2k-1)^2 <= 4v < (2k+1)^2  (eps is below the grid's resolution)
RECURSIVE RoundSqrtFrom(_, _)
RoundSqrtFrom(v, k) ==
  IF 4 * v.n < (2 * k + 1) * (2 * k + 1) * v.d THEN k
  ELSE RoundSqrtFrom(v, k + 1)

RoundSqrt(v) == IF IsNaN(v) THEN NaN ELSE Int2Num(RoundSqrtFrom(v, 0))

\* nearest integer to dlt / sqrt(v + eps): the k >= 0 with
\* (2k-1)^2 v <= 4 dlt^2 < (2k+1)^2 v, signed as dlt; 0 when dlt = 0
RECURSIVE RoundRatioFrom(_, _, _)
RoundRatioFrom(d2, v, k) ==
  IF Less(Mul(Int2Num(4), d2), Mul(Int2Num((2 * k + 1) * (2 * k + 1)), v))
  THEN k ELSE RoundRatioFrom(d2, v, k + 1)

RoundRatio(dlt, v) ==
  IF IsNaN(dlt) \/ IsNaN(v) THEN NaN
  ELSE IF dlt.n = 0 THEN Zero
  ELSE IF v.n = 0 THEN Round(Mul(dlt, Int2Num(316)))  \* 1/sqrt(1e-5)
  ELSE Int2Num(Sign(dlt.n) * RoundRatioFrom(Mul(dlt, dlt), v, 0))

-----------------------------------------------------------------------------
(* Tensors *)

RECURSIVE Numel(_)
Numel(shape) == IF shape = << >> THEN 1 ELSE Head(shape) * Numel(Tail(shape))

Tensor(shape, data) == [shape |-> shape, data |-> data]
NoTensor == Tensor(<< >>, << >>)
Rank(x) == Len(x.shape)
LastAxis(x) == x.shape[Len(x.shape)]

\* element (b, c, t) of a rank-3 tensor
At3(x, b, c, t) == x.data[((b - 1) * x.shape[2] + (c - 1)) * x.shape[3] + t]
\* element (b, j) of a rank-2 tensor, or (b, j, 1) of a rank-3 one of width 1
At2(x, b, j) == x.data[(b - 1) * x.shape[2] + j]

\* batch element b of a rank-3 tensor as rows [c][t]
Elem(x, b) ==
  Tup([c \in 1..x.shape[2] |-> Tup([t \in 1..x.shape[3] |-> At3(x, b, c, t)])])

\* the (B, D) tensor whose rows are given
FromRows(rows) ==
  LET B == Len(rows)
      D == Len(rows[1])
  IN  Tensor(<<B, D>>,
             Tup([i \in 1..(B * D) |-> rows[((i - 1) \div D) + 1][((i - 1) % D) + 1]]))

Row(x, b) == Tup([j \in 1..x.shape[2] |-> At2(x, b, j)])

RECURSIVE Concat(_)
Concat(ss) == IF ss = << >> THEN << >> ELSE Head(ss) \o Concat(Tail(ss))

-----------------------------------------------------------------------------
(* Layers of torch.nn used by the poolers *)

\* Parameter initialisation: the values the generator yields for the rng-th
\* layer created after torch.manual_seed(seed); small integers here.
InitWeight(rng, o, i) == Int2Num(((rng + 2 * o + i) % 3) - 1)
InitBias(rng, o) == Int2Num(((2 * rng + o) % 3) - 1)

\* nn.Conv1d(cin, cout, kernel_size=1)
Conv1d(cin, cout, rng) ==
  [type |-> "conv", cin |-> cin, cout |-> cout,
   weight |-> Tup([o \in 1..cout |-> Tup([i \in 1..cin |-> InitWeight(rng, o, i)])]),
   bias |-> Tup([o \in 1..cout |-> InitBias(rng, o)])]

\* nn.Tanh()
TanhModule == [type |-> "tanh", cin |-> 0, cout |-> 0,
               weight |-> << >>, bias |-> << >>]

\* a kernel-1 convolution applied to rows [c][t]: the same affine map at
\* every time step
ConvApply(m, rows) ==
  Tup([o \in 1..m.cout |-> Tup([t \in 1..Len(rows[1]) |->
     Add(m.bias[o],
         SumSeq(Tup([i \in 1..m.cin |-> Mul(m.weight[o][i], rows[i][t])])))])])

\* tanh on the grid: the nearest integer to tanh(v) (atanh(1/2) = 0.549...)
Tanh(v) ==
  IF IsNaN(v) THEN NaN
  ELSE IF Leq(Rat(11, 20), v) THEN One
  ELSE IF Leq(v, Rat(-11, 20)) THEN Int2Num(-1)
  ELSE Zero

TanhApply(rows) == Tup([c \in 1..Len(rows) |-> Tup([t \in 1..Len(rows[c]) |-> Tanh(rows[c][t])])])

ModuleApply(m, rows) == IF m.type = "conv" THEN ConvApply(m, rows) ELSE TanhApply(rows)

\* nn.Sequential.forward
RECURSIVE SequentialApply(_, _)
SequentialApply(mods, rows) ==
  IF mods = << >> THEN rows
  ELSE SequentialApply(Tail(mods), ModuleApply(Head(mods), rows))

\* 100 * exp(-k) to the nearest integer, k >= 0; underflows to 0
ExpTable == <<100, 37, 14, 5, 2, 1>>
ExpGrid(k) == IF k < Len(ExpTable) THEN ExpTable[k + 1] ELSE 0

Max2(a, b) == IF Less(b, a) THEN a ELSE b

RECURSIVE MaxOf(_)
MaxOf(s) == IF Len(s) = 1 THEN s[1] ELSE Max2(Head(s), MaxOf(Tail(s)))

\* softmax over one row of scores: exp(s - max) / sum exp(s - max); a NaN
\* score makes every weight NaN
DivideBy(e, z) == Tup([t \in 1..Len(e) |-> Div(e[t], z)])
Normalised(e) == DivideBy(e, SumSeq(e))
ExpShifted(s, m) ==
  Tup([t \in 1..Len(s) |-> Int2Num(ExpGrid(Round(Sub(m, s[t])).n))])

Softmax(s) ==
  IF \E t \in 1..Len(s) : IsNaN(s[t]) THEN Tup([t \in 1..Len(s) |-> NaN])
  ELSE Normalised(ExpShifted(s, MaxOf(s)))

\* softmax over the time axis of rows [c][t]
SoftmaxTime(rows) == Tup([c \in 1..Len(rows) |-> Softmax(rows[c])])

-----------------------------------------------------------------------------
(* Results of calls *)

\* what __init__ gives: the object, or the exception it raised
Built(obj) == [exc |-> "", obj |-> obj]
NoPooler == [cls |-> "none"]
CtorRaised(e) == [exc |-> e, obj |-> NoPooler]

\* what forward gives: the returned tensor, the attention weights it used
\* (all of them, flattened) and the object after the call; or the exception
Returned(out, alpha, post) == [exc |-> "", out |-> out, alpha |-> alpha, post |-> post]
FwdRaised(e, self) == [exc |-> e, out |-> NoTensor, alpha |-> << >>, post |-> self]

Unset == -1

\* the 4-D to 3-D reshape shared by ASTP, MHASTP and MQMHASTP
Reshape43(x) ==
  IF Rank(x) = 4
  THEN Tensor(<<x.shape[1], x.shape[2] * x.shape[3], x.shape[4]>>, x.data)
  ELSE x

\* weighted mean and std of rows [c][t] under weights w [c'][t], where a
\* single row of weights is broadcast over the channels
WeightOf(w, c) == IF Len(w) = 1 THEN w[1] ELSE w[c]

WeightedMean(rows, w) ==
  Tup([c \in 1..Len(rows) |->
     SumSeq(Tup([t \in 1..Len(rows[c]) |-> Mul(WeightOf(w, c)[t], rows[c][t])]))])

WeightedStd(rows, w, mean, floorExp) ==
  Tup([c \in 1..Len(rows) |->
     Sqrt(ClampMin(
       Sub(SumSeq(Tup([t \in 1..Len(rows[c]) |->
                     Mul(WeightOf(w, c)[t], Mul(rows[c][t], rows[c][t]))])),
           Mul(mean[c], mean[c])),
       floorExp))])

\* torch.cat((mean, std), dim=1) of one batch element
MeanAndStd(rows, w, mean, floorExp) == mean \o WeightedStd(rows, w, mean, floorExp)
Moments(rows, w, floorExp) == MeanAndStd(rows, w, WeightedMean(rows, w), floorExp)

\* one batch element's share of a call: its output row, the weights used
Pooled(row, alpha) == [row |-> row, alpha |-> Concat(alpha)]

\* the call's result from the shares of its batch elements
Collect(per, self) ==
  Returned(FromRows(Tup([b \in 1..Len(per) |-> per[b].row])),
           Concat(Tup([b \in 1..Len(per) |-> per[b].alpha])), self)

-----------------------------------------------------------------------------
(* ASTP *)

ASTP_init(in_dim, bottleneck_dim, global_context_att, seed) ==
  Built([cls |-> "ASTP", in_dim |-> in_dim,
         global_context_att |-> global_context_att,
         linear1 |-> Conv1d(IF global_context_att THEN in_dim * 3 ELSE in_dim,
                            bottleneck_dim, seed),
         linear2 |-> Conv1d(bottleneck_dim, in_dim, seed + 1),
         out_dim |-> Unset])

\* torch.mean(x, dim=-1) of one row
MeanTime(row) == Div(SumSeq(row), Int2Num(Len(row)))

\* torch.var(x, dim=-1) of one row: the unbiased estimate, 0/0 for one frame
SquaresAround(row, m) ==
  SumSeq(Tup([t \in 1..Len(row) |-> Mul(Sub(row[t], m), Sub(row[t], m))]))
VarTime(row) == Div(SquaresAround(row, MeanTime(row)), Int2Num(Len(row) - 1))

\* x_in of one batch element: rows, then the broadcast mean, then the
\* broadcast sqrt(var + 1e-7)
\* a value expanded along the time axis (expand_as)
Expand(v, T) == Tup([t \in 1..T |-> v])

ASTP_context(rows) ==
  rows
  \o Tup([c \in 1..Len(rows) |-> Expand(MeanTime(rows[c]), Len(rows[c]))])
  \o Tup([c \in 1..Len(rows) |-> Expand(RoundSqrt(VarTime(rows[c])), Len(rows[c]))])

ASTP_alpha(self, rows) ==
  SoftmaxTime(ConvApply(self.linear2, TanhApply(ConvApply(self.linear1,
    IF self.global_context_att THEN ASTP_context(rows) ELSE rows))))

ASTP_pool(rows, alpha) == Pooled(Moments(rows, alpha, 7), alpha)
ASTP_element(self, rows) == ASTP_pool(rows, ASTP_alpha(self, rows))

ASTP_forward3(self, x) ==
  IF Rank(x) # 3 THEN FwdRaised("AssertionError", self)
  ELSE IF x.shape[2] # self.in_dim THEN FwdRaised("RuntimeError", self)
  ELSE Collect(Tup([b \in 1..x.shape[1] |-> ASTP_element(self, Elem(x, b))]), self)

ASTP_forward(self, x) == ASTP_forward3(self, Reshape43(x))

ASTP_get_out_dim(self) == 2 * self.in_dim

-----------------------------------------------------------------------------
(* MHASTP *)

\* channel_dims after "channel_dims[0], channel_dims[-1] = d_model, d_s"
\* (index j here is Python's j - 1; the last assignment wins)
ChannelDims(layer_num, d_model, d_s, bottleneck_dim) ==
  Tup([j \in 1..(layer_num + 1) |->
     IF j = layer_num + 1 THEN d_s
     ELSE IF j = 1 THEN d_model
     ELSE bottleneck_dim])

\* "if d_s > 1: d_s = d_model else: d_s = 1"
\* the test "d_s > 1" written "d_s >= 1"
EffectiveDs_from_one(d_s, d_model) == IF d_s >= 1 THEN d_model ELSE 1

EffectiveDs(d_s, d_model) == IF d_s > 1 THEN d_model ELSE 1

\* the inner loop "for i in range(layer_num - 1)", from iteration i on;
\* rng counts the layers created so far
RECURSIVE AttTransLoop(_, _, _, _, _)
AttTransLoop(i, att_trans, channel_dims, layer_num, rng) ==
  IF i >= layer_num - 1 THEN att_trans
  ELSE AttTransLoop(i + 1,
         att_trans \o <<Conv1d(channel_dims[i + 1], channel_dims[i + 2], rng + i),
                        TanhModule>>,
         channel_dims, layer_num, rng)

\* one head's scorer: the inner loop, then the last projection
AttTrans(channel_dims, layer_num, rng) ==
  Append(AttTransLoop(0, << >>, channel_dims, layer_num, rng),
         Conv1d(channel_dims[layer_num], channel_dims[layer_num + 1],
                rng + layer_num - 1))

\* the outer loop "for i in range(self.head_num)", from iteration it on; the
\* inner loop rebinds i, which the range iterator of the outer loop ignores
RECURSIVE HeadsLoop(_, _, _, _, _, _)
HeadsLoop(it, heads_att_trans, head_num, channel_dims, layer_num, rng) ==
  IF it >= head_num THEN heads_att_trans
  ELSE HeadsLoop(it + 1,
         Append(heads_att_trans,
                AttTrans(channel_dims, layer_num, rng + it * layer_num)),
         head_num, channel_dims, layer_num, rng)

MHASTP_init(in_dim, layer_num, head_num, d_s, bottleneck_dim, seed) ==
  IF head_num = 0 THEN CtorRaised("ZeroDivisionError")
  ELSE IF in_dim % head_num # 0 THEN CtorRaised("AssertionError")
  ELSE LET d_model == in_dim \div head_num
           ds == EffectiveDs(d_s, d_model)
           channel_dims == ChannelDims(layer_num, d_model, ds, bottleneck_dim)
       IN  Built([cls |-> "MHASTP", in_dim |-> in_dim, head_num |-> head_num,
                  layer_num |-> layer_num, d_s |-> ds,
                  heads_att_trans |->
                    HeadsLoop(0, << >>, head_num, channel_dims, layer_num, seed),
                  out_dim |-> Unset])

\* torch.chunk(input, chunks, 1) on C channels: the channel ranges
\* <<first, last>> of the pieces, each of ceil(C / chunks) channels but
\* possibly the last
ChunkRanges(C, chunks) ==
  LET size == (C + chunks - 1) \div chunks
      n == (C + size - 1) \div size
  IN  Tup([i \in 1..n |-> <<(i - 1) * size + 1,
                        IF i * size < C THEN i * size ELSE C>>])

\* every head handed the first chunk
ChunkRows_first(rows, range) ==
  Tup([c \in 1..(range[2] - range[1] + 1) |-> rows[c]])

ChunkRows(rows, range) ==
  Tup([c \in 1..(range[2] - range[1] + 1) |-> rows[range[1] + c - 1]])

\* the first exception the loop over the heads raises, "" if none
MHASTP_head_error(self, ranges) ==
  LET bad == {i \in 1..Len(self.heads_att_trans) :
                \/ i > Len(ranges)
                \/ ranges[i][2] - ranges[i][1] + 1 # self.heads_att_trans[i][1].cin}
  IN  IF bad = {} THEN ""
      ELSE LET i == CHOOSE j \in bad : \A k \in bad : j <= k
           IN  IF i > Len(ranges) THEN "IndexError" ELSE "RuntimeError"

\* one head on one batch element: the chunk, its weights, (mean, std)
MHASTP_head_alpha(layer, chunk) == SoftmaxTime(SequentialApply(layer, chunk))

MHASTP_pool(chunk, alpha) == Pooled(Moments(chunk, alpha, 7), alpha)
MHASTP_head(layer, chunk) == MHASTP_pool(chunk, MHASTP_head_alpha(layer, chunk))

\* torch.cat(chunks_out, dim=1) of one batch element
MHASTP_cat(chunks_out) ==
  [row |-> Concat(Tup([i \in 1..Len(chunks_out) |-> chunks_out[i].row])),
   alpha |-> Concat(Tup([i \in 1..Len(chunks_out) |-> chunks_out[i].alpha]))]

\* the loop over the heads on one batch element
MHASTP_element(self, rows, ranges) ==
  MHASTP_cat(Tup([i \in 1..Len(self.heads_att_trans) |->
     MHASTP_head(self.heads_att_trans[i], ChunkRows(rows, ranges[i]))]))

MHASTP_chunked(self, input, ranges) ==
  IF MHASTP_head_error(self, ranges) # ""
  THEN FwdRaised(MHASTP_head_error(self, ranges), self)
  ELSE Collect(Tup([b \in 1..input.shape[1] |->
                  MHASTP_element(self, Elem(input, b), ranges)]), self)

MHASTP_forward3(self, input) ==
  IF Rank(input) # 3 THEN FwdRaised("AssertionError", self)
  ELSE MHASTP_chunked(self, input, ChunkRanges(input.shape[2], self.head_num))

MHASTP_forward(self, input) == MHASTP_forward3(self, Reshape43(input))

MHASTP_get_out_dim(self) == 2 * self.in_dim

-----------------------------------------------------------------------------
(* MQMHASTP *)

\* the list comprehension "[MHASTP(...) for i in range(query_num)]", from
\* iteration i on: the first child whose constructor raises ends it
RECURSIVE QueryLoop(_, _, _, _, _, _, _, _, _)
QueryLoop(i, n_query, in_dim, layer_num, query_num, head_num, d_s, bottleneck_dim, seed) ==
  IF i >= query_num THEN Built(n_query)
  ELSE LET child == MHASTP_init(in_dim, layer_num, head_num, d_s,
                                bottleneck_dim,
                                seed + i * head_num * layer_num)
       IN  IF child.exc # "" THEN CtorRaised(child.exc)
           ELSE QueryLoop(i + 1, Append(n_query, child.obj), in_dim, layer_num,
                          query_num, head_num, d_s, bottleneck_dim, seed)

MQMHASTP_init(in_dim, layer_num, query_num, head_num, d_s, bottleneck_dim, seed) ==
  LET children == QueryLoop(0, << >>, in_dim, layer_num, query_num, head_num,
                            d_s, bottleneck_dim, seed)
  IN  IF children.exc # "" THEN CtorRaised(children.exc)
      ELSE Built([cls |-> "MQMHASTP", n_query |-> children.obj,
                  query_num |-> query_num, in_dim |-> in_dim,
                  out_dim |-> Unset])

\* torch.cat(res, dim=-1) of (B, D) tensors
CatLast(res) ==
  FromRows(Tup([b \in 1..res[1].shape[1] |->
              Concat(Tup([i \in 1..Len(res) |-> Row(res[i], b)]))]))

\* the first exception among the children's calls, "" if none
FirstRaised(res) ==
  IF \A i \in 1..Len(res) : res[i].exc = "" THEN ""
  ELSE res[CHOOSE j \in 1..Len(res) :
             /\ res[j].exc # ""
             /\ \A k \in 1..(j - 1) : res[k].exc = ""].exc

\* the end of forward, given what the loop over self.n_query collected;
\* torch.cat refuses an empty list
MQMHASTP_cat(self, res) ==
  IF FirstRaised(res) # "" THEN FwdRaised(FirstRaised(res), self)
  ELSE IF Len(res) = 0 THEN FwdRaised("RuntimeError", self)
  ELSE Returned(CatLast(Tup([i \in 1..Len(res) |-> res[i].out])),
                Concat(Tup([i \in 1..Len(res) |-> res[i].alpha])),
                [self EXCEPT !.n_query = Tup([i \in 1..Len(res) |-> res[i].post])])

\* every query answered by the first child
MQMHASTP_forward3_first_child(self, input) ==
  IF Rank(input) # 3 THEN FwdRaised("AssertionError", self)
  ELSE MQMHASTP_cat(self, Tup([i \in 1..Len(self.n_query) |->
                                 MHASTP_forward(self.n_query[1], input)]))

MQMHASTP_forward3(self, input) ==
  IF Rank(input) # 3 THEN FwdRaised("AssertionError", self)
  ELSE MQMHASTP_cat(self, Tup([i \in 1..Len(self.n_query) |->
                                 MHASTP_forward(self.n_query[i], input)]))

MQMHASTP_forward(self, input) == MQMHASTP_forward3(self, Reshape43(input))

\* get_out_dim forgetting the number of queries
MQMHASTP_get_out_dim_one_query(self) == self.in_dim * 2

MQMHASTP_get_out_dim(self) == self.in_dim * 2 * self.query_num

-----------------------------------------------------------------------------
(* XI *)

\* nn.BatchNorm1d(num_features): affine weight 1 and bias 0, running mean 0
\* and variance 1, no batch tracked yet, momentum 0.1
BatchNorm1d(num_features) ==
  [weight |-> Tup([j \in 1..num_features |-> One]),
   bias |-> Tup([j \in 1..num_features |-> Zero]),
   running_mean |-> Tup([j \in 1..num_features |-> Zero]),
   running_var |-> Tup([j \in 1..num_features |-> One]),
   num_batches_tracked |-> 0]

Momentum == Rat(1, 10)

XI_init(in_dim, hidden_size, stddev, seed) ==
  Built([cls |-> "XI", input_dim |-> in_dim, stddev |-> stddev,
         output_dim |-> IF stddev THEN 2 * in_dim ELSE in_dim,
         prior_mean |-> Tup([c \in 1..in_dim |-> Zero]),
         prior_logprec |-> Tup([c \in 1..in_dim |-> Zero]),
         lin1 |-> Conv1d(in_dim, hidden_size, seed),
         bn |-> BatchNorm1d(hidden_size),
         lin2 |-> Conv1d(hidden_size, in_dim, seed + 1),
         training |-> TRUE])

ReLU(v) == IF IsNaN(v) THEN NaN ELSE IF v.n < 0 THEN Zero ELSE v
TupRelu(a) == Tup([j \in 1..Len(a) |-> Tup([t \in 1..Len(a[j]) |-> ReLU(a[j][t])])])

\* the values of feature j over the batch and the time axis
FeatureValues(h, j) == Concat(Tup([b \in 1..Len(h) |-> h[b][j]]))

BatchMean(vals) == Div(SumSeq(vals), Int2Num(Len(vals)))
\* the biased variance BatchNorm normalises with
BatchVar(vals) == Div(SquaresAround(vals, BatchMean(vals)), Int2Num(Len(vals)))

\* (h - mean) / sqrt(var + eps) * weight + bias over h[b][j][t]
Normalise(bn, h, mean, var) ==
  Tup([b \in 1..Len(h) |-> Tup([j \in 1..Len(h[b]) |-> Tup([t \in 1..Len(h[b][j]) |->
     Add(Mul(RoundRatio(Sub(h[b][j][t], mean[j]), var[j]), bn.weight[j]),
         bn.bias[j])])])])

\* BatchNorm1d.forward on h[b][j][t]: <<exception, output, module after>>.
\* In training mode the batch counter is advanced, then batches of a single
\* value per channel are refused, then the batch statistics normalise the
\* input and are blended into the running statistics; in evaluation mode
\* the running statistics normalise it.
BatchNorm_train(bn, h, n, mean, var) ==
  <<"", Normalise(bn, h, mean, var),
    [bn EXCEPT
       !.num_batches_tracked = @ + 1,
       !.running_mean = Tup([j \in 1..Len(mean) |->
          Add(Mul(Sub(One, Momentum), bn.running_mean[j]),
              Mul(Momentum, mean[j]))]),
       !.running_var = Tup([j \in 1..Len(var) |->
          Add(Mul(Sub(One, Momentum), bn.running_var[j]),
              Mul(Momentum, Mul(var[j], Rat(n, n - 1))))])]>>

\* the running statistics blended in evaluation mode too
BatchNorm_forward_tracking_in_eval(bn, h, training) ==
  IF Len(h) * Len(h[1][1]) = 1
  THEN IF training
       THEN <<"ValueError", << >>, [bn EXCEPT !.num_batches_tracked = @ + 1]>>
       ELSE <<"", Normalise(bn, h, bn.running_mean, bn.running_var), bn>>
  ELSE IF training
  THEN BatchNorm_train(bn, h, Len(h) * Len(h[1][1]),
         Tup([j \in 1..Len(bn.weight) |-> BatchMean(FeatureValues(h, j))]),
         Tup([j \in 1..Len(bn.weight) |-> BatchVar(FeatureValues(h, j))]))
  ELSE <<"", Normalise(bn, h, bn.running_mean, bn.running_var),
         BatchNorm_train(bn, h, Len(h) * Len(h[1][1]),
           Tup([j \in 1..Len(bn.weight) |-> BatchMean(FeatureValues(h, j))]),
           Tup([j \in 1..Len(bn.weight) |-> BatchVar(FeatureValues(h, j))]))[3]>>

\* the batch statistics normalising in evaluation mode too
BatchNorm_forward_batch_stats_in_eval(bn, h, training) ==
  IF ~training
  THEN <<"",
         Normalise(bn, h,
           Tup([j \in 1..Len(bn.weight) |-> BatchMean(FeatureValues(h, j))]),
           Tup([j \in 1..Len(bn.weight) |-> BatchVar(FeatureValues(h, j))])),
         bn>>
  ELSE IF Len(h) * Len(h[1][1]) = 1
  THEN <<"ValueError", << >>, [bn EXCEPT !.num_batches_tracked = @ + 1]>>
  ELSE BatchNorm_train(bn, h, Len(h) * Len(h[1][1]),
         Tup([j \in 1..Len(bn.weight) |-> BatchMean(FeatureValues(h, j))]),
         Tup([j \in 1..Len(bn.weight) |-> BatchVar(FeatureValues(h, j))]))

BatchNorm_forward(bn, h, training) ==
  IF ~training
  THEN <<"", Normalise(bn, h, bn.running_mean, bn.running_var), bn>>
  ELSE IF Len(h) * Len(h[1][1]) = 1
  THEN <<"ValueError", << >>, [bn EXCEPT !.num_batches_tracked = @ + 1]>>
  ELSE BatchNorm_train(bn, h, Len(h) * Len(h[1][1]),
         Tup([j \in 1..Len(bn.weight) |-> BatchMean(FeatureValues(h, j))]),
         Tup([j \in 1..Len(bn.weight) |-> BatchVar(FeatureValues(h, j))]))

\* 2 * log(softplus(z)) on the grid: the nearest integer
LogPrecTable == <<-1, 1, 2, 2, 3, 3, 4, 4, 4, 4, 5, 5, 5, 5, 5, 5>>
LogPrec(z) ==
  IF IsNaN(z) THEN NaN
  ELSE LET i == Round(z).n
       IN  Int2Num(IF i < 0 THEN 2 * i
                   ELSE IF i < Len(LogPrecTable) THEN LogPrecTable[i + 1]
                   ELSE 6)

\* weight_attn of one batch element: softmax over the frames' log-precisions
\* followed by the prior's
XI_weight_attn(self, logprec) ==
  Tup([c \in 1..Len(logprec) |-> Softmax(Append(logprec[c], self.prior_logprec[c]))])

\* the frames of one batch element followed by the prior mean
XI_augmented(self, rows) ==
  Tup([c \in 1..Len(rows) |-> Append(rows[c], self.prior_mean[c])])

\* the variance floor of the attentive poolers used for XI
XI_pool_floor7(self, aug, weight_attn) ==
  Pooled(IF self.stddev THEN Moments(aug, weight_attn, 7)
         ELSE WeightedMean(aug, weight_attn),
         weight_attn)

\* the output of one batch element: phi, or phi then sigma
XI_pool(self, aug, weight_attn) ==
  Pooled(IF self.stddev THEN Moments(aug, weight_attn, 12)
         ELSE WeightedMean(aug, weight_attn),
         weight_attn)

XI_element(self, rows, z) ==
  XI_pool(self, XI_augmented(self, rows),
          XI_weight_attn(self,
            Tup([c \in 1..Len(z) |-> Tup([t \in 1..Len(z[c]) |-> LogPrec(z[c][t])])])))

\* (B, D) -> (B, D, 1)
Unsqueeze2(r) == [r EXCEPT !.out = Tensor(r.out.shape \o <<1>>, r.out.data)]

XI_posterior(self, feat, normed, post) ==
  IF self.stddev
  THEN Unsqueeze2(Collect(Tup([b \in 1..Len(feat) |->
         XI_element(self, feat[b], ConvApply(self.lin2, normed[b]))]), post))
  ELSE Collect(Tup([b \in 1..Len(feat) |->
         XI_element(self, feat[b], ConvApply(self.lin2, normed[b]))]), post)

XI_after_bn(self, feat, bn_result) ==
  IF bn_result[1] # ""
  THEN FwdRaised(bn_result[1], [self EXCEPT !.bn = bn_result[3]])
  ELSE XI_posterior(self, feat, bn_result[2], [self EXCEPT !.bn = bn_result[3]])

XI_lin1_relu(self, rows) ==
  TupRelu(ConvApply(self.lin1, rows))

XI_estimate(self, feat) ==
  XI_after_bn(self, feat,
    BatchNorm_forward(self.bn,
                      Tup([b \in 1..Len(feat) |-> XI_lin1_relu(self, feat[b])]),
                      self.training))

XI_checked(self, inputs) ==
  IF Rank(inputs) # 3 THEN FwdRaised("AssertionError", self)
  ELSE IF inputs.shape[2] # self.input_dim THEN FwdRaised("AssertionError", self)
  ELSE XI_estimate(self, Tup([b \in 1..inputs.shape[1] |-> Elem(inputs, b)]))

\* rank-4 inputs merged as the other poolers merge them
XI_forward_reshaping(self, inputs) == XI_checked(self, Reshape43(inputs))

XI_forward(self, inputs) == XI_checked(self, inputs)

XI_get_out_dim(self) == self.output_dim

-----------------------------------------------------------------------------
(* The pooler object and the calls made on it *)

InDim(p) == IF p.cls = "XI" THEN p.input_dim ELSE p.in_dim

Forward(p, x) ==
  CASE p.cls = "ASTP" -> ASTP_forward(p, x)
    [] p.cls = "MHASTP" -> MHASTP_forward(p, x)
    [] p.cls = "MQMHASTP" -> MQMHASTP_forward(p, x)
    [] p.cls = "XI" -> XI_forward(p, x)

GetOutDimValue(p) ==
  CASE p.cls = "ASTP" -> ASTP_get_out_dim(p)
    [] p.cls = "MHASTP" -> MHASTP_get_out_dim(p)
    [] p.cls = "MQMHASTP" -> MQMHASTP_get_out_dim(p)
    [] p.cls = "XI" -> XI_get_out_dim(p)

\* nn.Module.train(mode).  Only XI owns a layer (BatchNorm1d) whose forward
\* reads the flag; the flag is kept for XI alone.
SetTraining(p, mode) == IF p.cls = "XI" THEN [p EXCEPT !.training = mode] ELSE p

\* The frames of utterance u: channel c (from 1) at time t (from 1).
\*   0: silence;  1: constant in time;
\*   2: utterance 1 but for the first channel, which varies in time;
\*   3: utterance 2 on the first channel, the others varying in time
Sample(u, c, t) ==
  CASE u = 0 -> 0
    [] u = 1 -> c
    [] u = 2 -> IF c = 1 THEN t + 1 ELSE c
    [] u = 3 -> IF c = 1 THEN t + 1 ELSE c + 2 - t

\* the (B, C, T) batch of the utterances utts
Batch3(utts, C, T) ==
  Tensor(<<Len(utts), C, T>>,
         Tup([i \in 1..(Len(utts) * C * T) |->
            Int2Num(Sample(utts[((i - 1) \div (C * T)) + 1],
                           (((i - 1) \div T) % C) + 1, ((i - 1) % T) + 1))]))

\* the same data with the channel axis split into (C1, F)
Batch4(utts, C1, F, T) ==
  Tensor(<<Len(utts), C1, F, T>>, Batch3(utts, C1 * F, T).data)

ZeroTensor(shape) == Tensor(shape, Tup([i \in 1..Numel(shape) |-> Zero]))

\* batches of one utterance, and of two: an utterance with itself or with
\* the next one
UttTuples ==
  {<<u>> : u \in Utterances}
  \cup {<<u, u>> : u \in Utterances}
  \cup {<<u, (u + 1) % Cardinality(Utterances)>> : u \in Utterances}

Inputs3 == {Batch3(u, C, T) : u \in UttTuples, C \in InDims, T \in 1..MaxT}
Inputs4 == {Batch4(<<u>>, cf[1], cf[2], T) :
              u \in {1, 2}, cf \in {<<1, 1>>, <<1, 2>>, <<2, 1>>}, T \in 1..MaxT}
InputsOther == {ZeroTensor(<<2>>), ZeroTensor(<<2, 2>>), ZeroTensor(<<1, 1, 1, 1, 1>>)}
Inputs == Inputs3 \cup Inputs4 \cup InputsOther

NoCall == [made |-> FALSE, x |-> NoTensor, pre |-> NoPooler, exc |-> "",
           out |-> NoTensor, alpha |-> << >>, post |-> NoPooler]
NoArgs == [cls |-> "none"]

Init ==
  /\ pooler = NoPooler
  /\ args = NoArgs
  /\ raised = ""
  /\ call = NoCall

\* pooler = Cls(...), between calls: the name is rebound to the new object,
\* or left unbound when the constructor raises
Constructed(r, a) ==
  /\ pooler' = r.obj
  /\ args' = a
  /\ raised' = r.exc
  /\ call' = NoCall

ConstructASTP ==
  /\ ~call.made
  /\ \E in_dim \in InDims, bottleneck_dim \in BottleneckDims,
        global_context_att \in BOOLEAN, seed \in Seeds :
       Constructed(ASTP_init(in_dim, bottleneck_dim, global_context_att, seed),
                   [cls |-> "ASTP", in_dim |-> in_dim])

ConstructMHASTP ==
  /\ ~call.made
  /\ \E in_dim \in InDims, layer_num \in 1..MaxLayers, head_num \in 0..MaxHeads,
        d_s \in DsValues, bottleneck_dim \in BottleneckDims, seed \in Seeds :
       Constructed(MHASTP_init(in_dim, layer_num, head_num, d_s, bottleneck_dim, seed),
                   [cls |-> "MHASTP", in_dim |-> in_dim, layer_num |-> layer_num,
                    head_num |-> head_num, d_s |-> d_s,
                    bottleneck_dim |-> bottleneck_dim])

ConstructMQMHASTP ==
  /\ ~call.made
  /\ \E in_dim \in InDims, layer_num \in 1..MaxLayers, query_num \in 0..MaxQuery,
        head_num \in 0..MaxHeads, d_s \in DsValues,
        bottleneck_dim \in BottleneckDims, seed \in Seeds :
       Constructed(MQMHASTP_init(in_dim, layer_num, query_num, head_num, d_s,
                                 bottleneck_dim, seed),
                   [cls |-> "MQMHASTP", in_dim |-> in_dim, layer_num |-> layer_num,
                    head_num |-> head_num, d_s |-> d_s, query_num |-> query_num,
                    bottleneck_dim |-> bottleneck_dim])

ConstructXI ==
  /\ ~call.made
  /\ \E in_dim \in InDims, hidden_size \in HiddenSizes, stddev \in BOOLEAN,
        seed \in Seeds :
       Constructed(XI_init(in_dim, hidden_size, stddev, seed),
                   [cls |-> "XI", in_dim |-> in_dim])

\* out = pooler(x), once the caller has let go of the previous result; the
\* batch counter of XI's normalisation layer is capped
CallForward ==
  /\ pooler.cls # "none"
  /\ ~call.made
  /\ pooler.cls = "XI" /\ pooler.training
       => pooler.bn.num_batches_tracked < MaxTracked
  /\ \E x \in Inputs : \E r \in {Forward(pooler, x)} :
           /\ pooler' = r.post
           /\ raised' = r.exc
           /\ call' = [made |-> TRUE, x |-> x, pre |-> pooler, exc |-> r.exc,
                       out |-> r.out, alpha |-> r.alpha, post |-> r.post]
           /\ UNCHANGED args

\* pooler.get_out_dim(): ASTP, MHASTP and MQMHASTP store the value they return
CallGetOutDim ==
  /\ pooler.cls # "none"
  /\ pooler' = IF pooler.cls = "XI" THEN pooler
               ELSE [pooler EXCEPT !.out_dim = GetOutDimValue(pooler)]
  /\ raised' = ""
  /\ UNCHANGED <<args, call>>

\* the caller lets go of the tensor a call returned
Release ==
  /\ call.made
  /\ call' = NoCall
  /\ raised' = ""
  /\ UNCHANGED <<pooler, args>>

\* pooler.train(mode) / pooler.eval()
CallTrain ==
  /\ pooler.cls # "none"
  /\ \E mode \in BOOLEAN : pooler' = SetTraining(pooler, mode)
  /\ raised' = ""
  /\ UNCHANGED <<args, call>>

Next ==
  \/ ConstructASTP
  \/ ConstructMHASTP
  \/ ConstructMQMHASTP
  \/ ConstructXI
  \/ CallForward
  \/ CallGetOutDim
  \/ CallTrain
  \/ Release

Spec == Init /\ [][Next]_vars

-----------------------------------------------------------------------------
(* Properties of the poolers.  call records the last forward call: the
   pooler before it (pre), the input (x), the exception it raised (exc, ""
   if none), the tensor it returned (out), and the pooler after it (post). *)

Ok == call.made /\ call.exc = ""

\* the input as the pooling core sees it, after the rank-4 merge
Seen == Reshape43(call.x)

\* the other inputs of the same shape
Others == {y \in Inputs3 : y.shape = Seen.shape /\ y # Seen}

AgreeOnChannels(x, y, cs) ==
  \A b \in 1..x.shape[1], c \in cs, t \in 1..x.shape[3] :
    At3(x, b, c, t) = At3(y, b, c, t)

AgreeOnColumns(o1, o2, js) ==
  /\ o1.shape = o2.shape
  /\ \A b \in 1..o1.shape[1], j \in js : At2(o1, b, j) = At2(o2, b, j)

-----------------------------------------------------------------------------
(* C1: dimension consistency *)

\* C1 as stated: after every successful forward call, get_out_dim() returns
\* what it returned before the call, and that value is the size of the last
\* axis of the returned tensor.
LastAxisIsOutDim ==
  Ok => /\ GetOutDimValue(call.post) = GetOutDimValue(call.pre)
        /\ LastAxis(call.out) = GetOutDimValue(call.pre)

\* C1 amended: get_out_dim() is unchanged by forward and is the size of
\* axis 1 of the returned tensor; that axis is the last one for every pooler
\* except XI with stddev=True, which returns (B, output_dim, 1).
OutDimIsAxisOne ==
  Ok => /\ GetOutDimValue(call.post) = GetOutDimValue(call.pre)
        /\ GetOutDimValue(pooler) = GetOutDimValue(call.pre)
        /\ call.out.shape[1] = Seen.shape[1]
        /\ call.out.shape[2] = GetOutDimValue(call.pre)
        /\ IF call.pre.cls = "XI" /\ call.pre.stddev
           THEN Rank(call.out) = 3 /\ LastAxis(call.out) = 1
           ELSE Rank(call.out) = 2

\* a successful call on XI with stddev=True, returning a last axis of size 1
\* next to an output dimension of 2C
XIStddevReturnsRank3 ==
  /\ Ok
  /\ call.pre.cls = "XI" /\ call.pre.stddev
  /\ LastAxis(call.out) = 1
  /\ GetOutDimValue(call.post) = 2 * call.pre.input_dim

-----------------------------------------------------------------------------
(* C2: heads that do not divide the channels *)

Divides(head_num, in_dim) == head_num # 0 /\ in_dim % head_num = 0

\* C2 as stated: a MHASTP or MQMHASTP constructor given a head_num that does
\* not evenly divide in_dim raises, whatever the other arguments: no pooler
\* is built, so no forward call can be where the error surfaces.
IndivisibleHeadsRejected ==
  /\ args.cls \in {"MHASTP", "MQMHASTP"}
       /\ ~Divides(args.head_num, args.in_dim)
     => pooler = NoPooler
  /\ call.made /\ call.pre.cls \in {"MHASTP", "MQMHASTP"}
     => Divides(args.head_num, args.in_dim)

-----------------------------------------------------------------------------
(* C3: a single time step *)

VarianceFloor == Pow10(-7)

\* the columns of head h's mean and of its std, for heads of width w
MeanColumn(w, h, j) == 2 * w * (h - 1) + j
StdColumn(w, h, j) == 2 * w * (h - 1) + w + j

HeadsOf(p) == IF p.cls = "MHASTP" THEN p.head_num ELSE 1

\* the output of a call on single-frame input is the frame and the floor
SingleFrameMoments(out, x, H) ==
  \A b \in 1..x.shape[1], h \in 1..H, j \in 1..(x.shape[2] \div H) :
    /\ At2(out, b, MeanColumn(x.shape[2] \div H, h, j))
         = At3(x, b, (h - 1) * (x.shape[2] \div H) + j, 1)
    /\ At2(out, b, StdColumn(x.shape[2] \div H, h, j)) = Sqrt(VarianceFloor)

\* C3 as stated: a successful forward call of ASTP (global_context_att False
\* or True) or MHASTP on an input with one time step weighs the frame by
\* exactly 1, returns the frame as the mean and the square root of the
\* variance floor as the std, and no NaN.
SingleFrameDegenerate ==
  Ok /\ call.pre.cls \in {"ASTP", "MHASTP"} /\ Seen.shape[3] = 1
  => /\ \A i \in 1..Len(call.alpha) : call.alpha[i] = One
     /\ \A i \in 1..Len(call.out.data) : ~IsNaN(call.out.data[i])
     /\ SingleFrameMoments(call.out, Seen, HeadsOf(call.pre))

-----------------------------------------------------------------------------
(* C4: the heads of MHASTP are independent *)

HeadChannels(C, H, h) == ((h - 1) * (C \div H) + 1)..(h * (C \div H))
HeadColumns(C, H, h) == (2 * (h - 1) * (C \div H) + 1)..(2 * h * (C \div H))

\* the inputs of the same shape that agree with the call's on head h's
\* channels, and are otherwise any
SameForHead(h) ==
  {y \in Others :
     AgreeOnChannels(Seen, y, HeadChannels(Seen.shape[2], call.pre.head_num, h))}

\* C4: in a successful MHASTP call, head h's block of the output (its mean,
\* then its std) is the block the same pooler returns for every input that
\* agrees on head h's channels, whatever the other channels hold.
HeadIndependence ==
  Ok /\ call.pre.cls = "MHASTP"
  => \A h \in 1..call.pre.head_num : \A y \in SameForHead(h) :
       AgreeOnColumns(call.out, MHASTP_forward(call.pre, y).out,
                      HeadColumns(Seen.shape[2], call.pre.head_num, h))

\* a two-head call and an input that agrees on one head's channels only:
\* that head's block is the same and the output is not
OtherHeadPerturbed ==
  /\ Ok
  /\ call.pre.cls = "MHASTP" /\ call.pre.head_num = 2
  /\ \E h \in 1..2 : \E y \in SameForHead(h) :
       /\ AgreeOnColumns(call.out, MHASTP_forward(call.pre, y).out,
                         HeadColumns(Seen.shape[2], 2, h))
       /\ MHASTP_forward(call.pre, y).out # call.out

-----------------------------------------------------------------------------
(* C5: MQMHASTP is the concatenation of its children *)

\* outs[q] is child q's own forward on the input; the call raises if a child
\* does or if there is none, and otherwise block q of each output row is the
\* row child q returned
ConcatenationOf(outs, Q, B, D) ==
  /\ Len(outs) = Q
  /\ call.exc = "" <=> (Q >= 1 /\ \A q \in 1..Q : outs[q].exc = "")
  /\ call.exc = ""
     => /\ call.out.shape = <<B, Q * D>>
        /\ \A q \in 1..Q :
             /\ outs[q].out.shape = <<B, D>>
             /\ \A b \in 1..B, j \in 1..D :
                  At2(call.out, b, (q - 1) * D + j) = At2(outs[q].out, b, j)

\* C5: a MQMHASTP call on an input of rank 3 or 4 returns, for each of its
\* query_num children in instantiation order, the 2*in_dim columns that
\* child returns on the same input, side by side.
MultiQueryLaw ==
  call.made /\ call.pre.cls = "MQMHASTP" /\ Rank(call.x) \in {3, 4}
  => ConcatenationOf(Tup([q \in 1..Len(call.pre.n_query) |->
                            MHASTP_forward(call.pre.n_query[q], call.x)]),
                     call.pre.query_num, Seen.shape[1], 2 * call.pre.in_dim)

\* a successful call with two queries whose blocks differ
TwoQueriesDiffer ==
  /\ Ok
  /\ call.pre.cls = "MQMHASTP" /\ call.pre.query_num = 2
  /\ \E b \in 1..call.out.shape[1], j \in 1..(2 * call.pre.in_dim) :
       At2(call.out, b, j) # At2(call.out, b, 2 * call.pre.in_dim + j)

-----------------------------------------------------------------------------
(* C6: the floor of XI's posterior variance *)

XIFloor == Pow10(-12)

IdenticalFrames(x) ==
  \A b \in 1..x.shape[1], c \in 1..x.shape[2], t \in 1..x.shape[3] :
    At3(x, b, c, t) = At3(x, b, c, 1)

FramesAtPrior(x, prior_mean) ==
  \A b \in 1..x.shape[1], c \in 1..x.shape[2], t \in 1..x.shape[3] :
    At3(x, b, c, t) = prior_mean[c]

StdHalfIsFloor(out) ==
  \A b \in 1..out.shape[1], j \in ((out.shape[2] \div 2) + 1)..out.shape[2] :
    At2(out, b, j) = Sqrt(XIFloor)

-----------------------------------------------------------------------------
(* C7: what a forward call changes *)

\* the pooler as constructed with the same weights: no out_dim attribute
\* yet, the buffers of XI's BatchNorm1d at their initial values
Fresh(p) ==
  IF p.cls = "XI" THEN [p EXCEPT !.bn = BatchNorm1d(Len(p.bn.weight))]
  ELSE [p EXCEPT !.out_dim = Unset]

\* the pooler without the buffers of its sub-layers
WithoutBuffers(p) ==
  IF p.cls = "XI"
  THEN [p EXCEPT !.bn = [weight |-> p.bn.weight, bias |-> p.bn.bias]]
  ELSE p

\* the call got as far as XI's projection stack
ReachedBatchNorm ==
  /\ call.pre.cls = "XI"
  /\ Rank(call.x) = 3
  /\ call.x.shape[2] = call.pre.input_dim

\* C7 as stated: a forward call leaves the parameters and the buffers of the
\* pooler as they were, and what it returns is what the freshly constructed
\* pooler with the same weights returns.
ForwardIsPure ==
  call.made
  => /\ call.post = call.pre
     /\ call.exc = "" => call.out = Forward(Fresh(call.pre), call.x).out

\* C7 amended: a forward call leaves the trainable parameters as they were;
\* ASTP, MHASTP, MQMHASTP and XI in evaluation mode keep their whole state
\* and return what the freshly constructed pooler does in training mode or,
\* for the three attentive poolers, in any mode; a call of XI in training
\* mode that reaches the normalisation layer advances its batch counter.
ForwardKeepsParameters ==
  call.made
  => /\ WithoutBuffers(call.post) = WithoutBuffers(call.pre)
     /\ call.pre.cls # "XI" \/ ~call.pre.training => call.post = call.pre
     /\ ReachedBatchNorm /\ call.pre.training
        => call.post.bn.num_batches_tracked
             = call.pre.bn.num_batches_tracked + 1
     /\ call.exc = "" /\ (call.pre.cls # "XI" \/ call.pre.training)
        => call.out = Forward(Fresh(call.pre), call.x).out

\* a successful training-mode call of XI, not the first, that moved the
\* running mean
RunningMeanMoved ==
  /\ Ok
  /\ call.pre.cls = "XI" /\ call.pre.training
  /\ call.pre.bn.num_batches_tracked >= 1
  /\ call.post.bn.running_mean # call.pre.bn.running_mean
  /\ WithoutBuffers(call.post) = WithoutBuffers(call.pre)

-----------------------------------------------------------------------------
(* C8: inputs of the wrong shape *)

Aborted ==
  /\ call.exc = "AssertionError"
  /\ call.out = NoTensor
  /\ call.post = call.pre

\* C8: a forward call of ASTP, MHASTP or MQMHASTP on an input whose rank is
\* neither 3 nor 4, and one of XI on an input whose rank is not 3 or whose
\* channel axis is not in_dim, raises and returns nothing.
ShapeErrorsAtForward ==
  call.made
  => /\ call.pre.cls \in {"ASTP", "MHASTP", "MQMHASTP"}
          /\ Rank(call.x) \notin {3, 4}
        => Aborted
     /\ call.pre.cls = "XI" /\ Rank(call.x) # 3 => Aborted
     /\ call.pre.cls = "XI" /\ Rank(call.x) = 3
          /\ call.x.shape[2] # call.pre.input_dim
        => Aborted

\* XI called on a rank-4 input whose merged channel axis would have fitted
XIRefusesRank4 ==
  /\ call.made
  /\ call.pre.cls = "XI"
  /\ Rank(call.x) = 4
  /\ Seen.shape[2] = call.pre.input_dim
  /\ Aborted

-----------------------------------------------------------------------------
(* C9: the elements of a batch *)

\* the inputs of the same shape with the same batch element b
SameElement(b) == {y \in Others : Elem(Seen, b) = Elem(y, b)}

RowsAgree(o1, o2, b) ==
  /\ o1.shape = o2.shape
  /\ \A j \in 1..o1.shape[2] : At2(o1, b, j) = At2(o2, b, j)

RowDependsOnElementOnly ==
  \A b \in 1..Seen.shape[1] : \A y \in SameElement(b) :
    RowsAgree(call.out, Forward(call.pre, y).out, b)

\* C9 as stated: row b of what a successful call returns is the row b the
\* same pooler returns for every batch with the same element b.
BatchIndependence == Ok => RowDependsOnElementOnly

\* C9 amended: the same, for ASTP, MHASTP, MQMHASTP and for XI in
\* evaluation mode.
BatchIndependenceOutsideTraining ==
  Ok /\ (call.pre.cls # "XI" \/ ~call.pre.training) => RowDependsOnElementOnly

\* an evaluation-mode call of XI on a batch of two, and a batch that has
\* the same first element and gives another output
OtherElementPerturbed ==
  /\ Ok
  /\ call.pre.cls = "XI" /\ ~call.pre.training
  /\ Seen.shape[1] = 2
  /\ \E y \in SameElement(1) :
       /\ RowsAgree(call.out, Forward(call.pre, y).out, 1)
       /\ Forward(call.pre, y).out # call.out

-----------------------------------------------------------------------------
(* C10: the scorers MHASTP builds *)

\* a scorer of L projections, tanh between them, from d_model to d_out
ScorerWellBuilt(s, L, d_model, d_out) ==
  /\ Len(s) = 2 * L - 1
  /\ \A k \in 1..L : s[2 * k - 1].type = "conv"
  /\ \A k \in 1..(L - 1) :
       /\ s[2 * k].type = "tanh"
       /\ s[2 * k - 1].cout = s[2 * k + 1].cin
  /\ s[1].cin = d_model
  /\ s[2 * L - 1].cout = d_out

ScorersWellBuilt(heads, a) ==
  /\ Len(heads) = a.head_num
  /\ \A h \in 1..Len(heads) :
       ScorerWellBuilt(heads[h], a.layer_num, a.in_dim \div a.head_num,
                       IF a.d_s <= 1 THEN 1 ELSE a.in_dim \div a.head_num)

\* C10: MHASTP(in_dim, layer_num, head_num, d_s, ...) with head_num dividing
\* in_dim builds head_num scorers, each of layer_num projections with tanh
\* between all but the last, from in_dim/head_num channels through matching
\* widths to 1 channel if d_s <= 1 and to in_dim/head_num channels otherwise.
ScorerConstruction ==
  /\ args.cls = "MHASTP" /\ Divides(args.head_num, args.in_dim)
     => pooler.cls = "MHASTP"
  /\ pooler.cls = "MHASTP" => ScorersWellBuilt(pooler.heads_att_trans, args)

\* two layers per head and one score per channel, for heads of two channels
WideScorersBuilt ==
  /\ pooler.cls = "MHASTP"
  /\ args.layer_num >= 2 /\ args.d_s > 1
  /\ args.in_dim \div args.head_num > 1
  /\ ScorersWellBuilt(pooler.heads_att_trans, args)

=============================================================================
